---- MODULE Spec2Model ----
(***************************************************************************)
(* The Rc<RefCell<Node>> doubly-linked deque of src/src/fourth.rs.         *)
(*                                                                         *)
(* The heap is a finite set of node slots.  Every slot carries the fields  *)
(* of Node (elem, next, prev), the strong count of the Rc that owns it and *)
(* the borrow flag of its RefCell.  Every method of List is a pure         *)
(* operator on a machine record, written statement by statement after the  *)
(* source; an action applies one method and commits the record.            *)
(***************************************************************************)
EXTENDS Integers, Sequences, FiniteSets, TLC

\* ---------------------------------------------------------------- bounds
MaxNodes == 3

MaxElem == 2

MaxViews == 2

MaxOps == 6

NodeIds == 1..MaxNodes

Elems == 1..MaxElem

\* Option::None, for links and for returned options alike
None == 0

NoFault == "none"

VARIABLES head, tail, elem, next, prev, strong, borrow, fault, views, mode,
          last, it, trace

\* The singly-linked stacks of first.rs and second.rs: the head link of each,
\* whether the second list has moved into an IntoIter, and the calls made
\* on them with their results.
VARIABLES first_head, second_head, second_iter, calls

stackVars == <<first_head, second_head, second_iter, calls>>

heapVars == <<head, tail, elem, next, prev, strong, borrow, fault>>

vars ==
  <<head, tail, elem, next, prev, strong, borrow, fault, views, mode, last, it,
    trace, first_head, second_head, second_iter, calls>>

\* ------------------------------------------------------- machine records
\* The list and the heap as one value; ret is the value the running method
\* returns, rc the strong count Rc::try_unwrap found and view the node whose
\* Ref or RefMut the method hands to its caller.  What the method did to get
\* there is counted too: held is the borrow flag Rc::try_unwrap found on the
\* node, dirty says that some node was reclaimed while it still had a link,
\* cascade counts the nodes reclaimed by the drop of their last Rc, and calls
\* and pops count the pop_front calls of a teardown and those that returned
\* an element.
M ==
  [head |-> head, tail |-> tail, elem |-> elem, next |-> next, prev |-> prev,
   strong |-> strong, borrow |-> borrow, fault |-> fault, ret |-> None, rc |-> 0,
   view |-> None, held |-> 0, dirty |-> FALSE, cascade |-> 0, calls |-> 0,
   pops |-> 0]

Commit(m) ==
  /\ head' = m.head
  /\ tail' = m.tail
  /\ elem' = m.elem
  /\ next' = m.next
  /\ prev' = m.prev
  /\ strong' = m.strong
  /\ borrow' = m.borrow
  /\ fault' = m.fault

Free(m) == {n \in NodeIds : m.strong[n] = 0}

\* Dropping one Rc: the count goes down, and the last owner drops the node,
\* that is its fields in declaration order (elem, next, prev).
RECURSIVE DropLink(_, _)
DropLink(m, l) ==
  IF l = None THEN m
  ELSE IF m.strong[l] > 1 THEN [m EXCEPT !.strong[l] = @ - 1]
  ELSE LET gone == [m EXCEPT !.strong[l] = 0, !.elem[l] = None,
                             !.next[l] = None, !.prev[l] = None,
                             !.borrow[l] = 0, !.cascade = @ + 1,
                             !.dirty = @ \/ m.next[l] # None
                                         \/ m.prev[l] # None]
       IN DropLink(DropLink(gone, m.next[l]), m.prev[l])

\* Rc::clone
RcClone(m, n) == [m EXCEPT !.strong[n] = @ + 1]

\* Node::new(elem) placed in the free slot n
NodeNew(m, n, e) ==
  [m EXCEPT !.strong[n] = 1, !.elem[n] = e, !.next[n] = None,
            !.prev[n] = None, !.borrow[n] = 0]

\* RefCell::borrow_mut: a fault unless the cell is unborrowed
BorrowMut(m, n) ==
  IF m.fault # NoFault THEN m
  ELSE IF m.borrow[n] # 0 THEN [m EXCEPT !.fault = "BorrowMutError"]
  ELSE [m EXCEPT !.borrow[n] = -1]

\* drop of a RefMut
ReleaseMut(m, n) ==
  IF m.fault # NoFault THEN m ELSE [m EXCEPT !.borrow[n] = 0]

\* RefCell::borrow: a fault while the cell is mutably borrowed
Borrow(m, n) ==
  IF m.fault # NoFault THEN m
  ELSE IF m.borrow[n] < 0 THEN [m EXCEPT !.fault = "BorrowError"]
  ELSE [m EXCEPT !.borrow[n] = @ + 1]

\* drop of a Ref
Release(m, n) ==
  IF m.fault # NoFault THEN m ELSE [m EXCEPT !.borrow[n] = @ - 1]

\* Assignments to a link slot drop the value the slot held.
SetHead(m, l) ==
  IF m.fault # NoFault THEN m ELSE DropLink([m EXCEPT !.head = l], m.head)

SetTail(m, l) ==
  IF m.fault # NoFault THEN m ELSE DropLink([m EXCEPT !.tail = l], m.tail)

SetNext(m, n, l) ==
  IF m.fault # NoFault THEN m ELSE DropLink([m EXCEPT !.next[n] = l], m.next[n])

SetPrev(m, n, l) ==
  IF m.fault # NoFault THEN m ELSE DropLink([m EXCEPT !.prev[n] = l], m.prev[n])

\* Rc::try_unwrap(n).ok().unwrap().into_inner().elem
TryUnwrapElem(m, n) ==
  IF m.fault # NoFault THEN m
  ELSE IF m.strong[n] = 1
       THEN LET gone == [m EXCEPT !.strong[n] = 0, !.elem[n] = None,
                                  !.next[n] = None, !.prev[n] = None,
                                  !.borrow[n] = 0,
                                  !.ret = m.elem[n], !.rc = m.strong[n],
                                  !.held = m.borrow[n],
                                  !.dirty = @ \/ m.next[n] # None
                                              \/ m.prev[n] # None]
            IN DropLink(DropLink(gone, m.next[n]), m.prev[n])
       ELSE [DropLink(m, n) EXCEPT !.fault = "unwrap_none", !.rc = m.strong[n]]

\* ------------------------------------------------------- List operations
\* push_front with line 51 repeated in the Some arm: the tail slot is
\* overwritten on every push
push_front_settail(m, n, e) ==
  LET m0 == NodeNew(m, n, e)
      old_head == m0.head
      m1 == [m0 EXCEPT !.head = None]
  IN IF old_head # None
     THEN LET c == RcClone(m1, n)
              a == ReleaseMut(SetPrev(BorrowMut(c, old_head), old_head, n),
                              old_head)
              b == ReleaseMut(SetNext(BorrowMut(a, n), n, old_head), n)
          IN SetHead(SetTail(RcClone(b, n), n), n)
     ELSE SetHead(SetTail(RcClone(m1, n), n), n)

\* push_front without line 51: the first node never reaches the tail slot
push_front_notail(m, n, e) ==
  LET m0 == NodeNew(m, n, e)
      old_head == m0.head
      m1 == [m0 EXCEPT !.head = None]
  IN IF old_head # None
     THEN LET c == RcClone(m1, n)
              a == ReleaseMut(SetPrev(BorrowMut(c, old_head), old_head, n),
                              old_head)
              b == ReleaseMut(SetNext(BorrowMut(a, n), n, old_head), n)
          IN SetHead(b, n)
     ELSE SetHead(m1, n)

\* push_front without line 45: the old head never learns its predecessor
push_front_noprev(m, n, e) ==
  LET m0 == NodeNew(m, n, e)
      old_head == m0.head
      m1 == [m0 EXCEPT !.head = None]
  IN IF old_head # None
     THEN SetHead(ReleaseMut(SetNext(BorrowMut(m1, n), n, old_head), n), n)
     ELSE SetHead(SetTail(RcClone(m1, n), n), n)

push_front(m, n, e) ==
  LET m0 == NodeNew(m, n, e)
      old_head == m0.head
      m1 == [m0 EXCEPT !.head = None]
  IN IF old_head # None
     THEN LET c == RcClone(m1, n)
              a == ReleaseMut(SetPrev(BorrowMut(c, old_head), old_head, n),
                              old_head)
              b == ReleaseMut(SetNext(BorrowMut(a, n), n, old_head), n)
          IN SetHead(b, n)
     ELSE SetHead(SetTail(RcClone(m1, n), n), n)

\* push_back written as a copy of push_front
push_back_asfront(m, n, e) == push_front(m, n, e)

\* push_back without line 62: the old tail never learns its successor
push_back_nonext(m, n, e) ==
  LET m0 == NodeNew(m, n, e)
      old_tail == m0.tail
      m1 == [m0 EXCEPT !.tail = None]
  IN IF old_tail # None
     THEN SetTail(ReleaseMut(SetPrev(BorrowMut(m1, n), n, old_tail), n), n)
     ELSE SetTail(SetHead(RcClone(m1, n), n), n)

push_back(m, n, e) ==
  LET m0 == NodeNew(m, n, e)
      old_tail == m0.tail
      m1 == [m0 EXCEPT !.tail = None]
  IN IF old_tail # None
     THEN LET c == RcClone(m1, n)
              a == ReleaseMut(SetNext(BorrowMut(c, old_tail), old_tail, n),
                              old_tail)
              b == ReleaseMut(SetPrev(BorrowMut(a, n), n, old_tail), n)
          IN SetTail(b, n)
     ELSE SetTail(SetHead(RcClone(m1, n), n), n)

\* pop_front with old_head for new_head on line 79: the detached node is
\* borrowed a second time while the match still holds its RefMut
pop_front_selfborrow(m) ==
  IF m.head = None THEN [m EXCEPT !.ret = None]
  ELSE LET old_head == m.head
           m1 == [m EXCEPT !.head = None]
           m2 == BorrowMut(m1, old_head)
           new_head == m2.next[old_head]
           m3 == IF m2.fault = NoFault
                 THEN [m2 EXCEPT !.next[old_head] = None] ELSE m2
           m4 == IF new_head # None
                 THEN LET a == BorrowMut(m3, old_head)
                          b == ReleaseMut(SetPrev(a, old_head, None), old_head)
                      IN SetHead(b, new_head)
                 ELSE SetTail(m3, None)
           m5 == ReleaseMut(m4, old_head)
       IN TryUnwrapElem(m5, old_head)

\* pop_front with borrow().next.clone() for borrow_mut().next.take() on
\* line 76: the detached node keeps its next link until it is reclaimed
pop_front_clone(m) ==
  IF m.head = None THEN [m EXCEPT !.ret = None]
  ELSE LET old_head == m.head
           m1 == [m EXCEPT !.head = None]
           m2 == Borrow(m1, old_head)
           new_head == m2.next[old_head]
           m3 == IF m2.fault = NoFault /\ new_head # None
                 THEN RcClone(m2, new_head) ELSE m2
           m4 == IF new_head # None
                 THEN LET a == BorrowMut(m3, new_head)
                          b == ReleaseMut(SetPrev(a, new_head, None), new_head)
                      IN SetHead(b, new_head)
                 ELSE SetTail(m3, None)
           m5 == Release(m4, old_head)
       IN TryUnwrapElem(m5, old_head)

\* pop_front with unwrap() in place of map(): the empty list faults
pop_front_unwrap(m) ==
  IF m.head = None THEN [m EXCEPT !.fault = "unwrap_none"]
  ELSE LET old_head == m.head
           m1 == [m EXCEPT !.head = None]
           m2 == BorrowMut(m1, old_head)
           new_head == m2.next[old_head]
           m3 == IF m2.fault = NoFault
                 THEN [m2 EXCEPT !.next[old_head] = None] ELSE m2
           m4 == IF new_head # None
                 THEN LET a == BorrowMut(m3, new_head)
                          b == ReleaseMut(SetPrev(a, new_head, None), new_head)
                      IN SetHead(b, new_head)
                 ELSE SetTail(m3, None)
           m5 == ReleaseMut(m4, old_head)
       IN TryUnwrapElem(m5, old_head)

\* pop_front without line 86: the last node stays in the tail slot
pop_front_keeptail(m) ==
  IF m.head = None THEN [m EXCEPT !.ret = None]
  ELSE LET old_head == m.head
           m1 == [m EXCEPT !.head = None]
           m2 == BorrowMut(m1, old_head)
           new_head == m2.next[old_head]
           m3 == IF m2.fault = NoFault
                 THEN [m2 EXCEPT !.next[old_head] = None] ELSE m2
           m4 == IF new_head # None
                 THEN LET a == BorrowMut(m3, new_head)
                          b == ReleaseMut(SetPrev(a, new_head, None), new_head)
                      IN SetHead(b, new_head)
                 ELSE m3
           m5 == ReleaseMut(m4, old_head)
       IN TryUnwrapElem(m5, old_head)

pop_front(m) ==
  IF m.head = None THEN [m EXCEPT !.ret = None]
  ELSE LET old_head == m.head
           m1 == [m EXCEPT !.head = None]
           m2 == BorrowMut(m1, old_head)
           new_head == m2.next[old_head]
           m3 == IF m2.fault = NoFault
                 THEN [m2 EXCEPT !.next[old_head] = None] ELSE m2
           m4 == IF new_head # None
                 THEN LET a == BorrowMut(m3, new_head)
                          b == ReleaseMut(SetPrev(a, new_head, None), new_head)
                      IN SetHead(b, new_head)
                 ELSE SetTail(m3, None)
           m5 == ReleaseMut(m4, old_head)
       IN TryUnwrapElem(m5, old_head)

\* pop_back without line 110: the last node stays in the head slot
pop_back_keephead(m) ==
  IF m.tail = None THEN [m EXCEPT !.ret = None]
  ELSE LET old_tail == m.tail
           m1 == [m EXCEPT !.tail = None]
           m2 == BorrowMut(m1, old_tail)
           new_tail == m2.prev[old_tail]
           m3 == IF m2.fault = NoFault
                 THEN [m2 EXCEPT !.prev[old_tail] = None] ELSE m2
           m4 == IF new_tail # None
                 THEN LET a == BorrowMut(m3, new_tail)
                          b == ReleaseMut(SetNext(a, new_tail, None), new_tail)
                      IN SetTail(b, new_tail)
                 ELSE m3
           m5 == ReleaseMut(m4, old_tail)
       IN TryUnwrapElem(m5, old_tail)

\* pop_back written as a copy of pop_front
pop_back_asfront(m) == pop_front(m)

\* pop_back without line 103: the new tail keeps its link to the old one
pop_back_keepnext(m) ==
  IF m.tail = None THEN [m EXCEPT !.ret = None]
  ELSE LET old_tail == m.tail
           m1 == [m EXCEPT !.tail = None]
           m2 == BorrowMut(m1, old_tail)
           new_tail == m2.prev[old_tail]
           m3 == IF m2.fault = NoFault
                 THEN [m2 EXCEPT !.prev[old_tail] = None] ELSE m2
           m4 == IF new_tail # None THEN SetTail(m3, new_tail)
                 ELSE SetHead(m3, None)
           m5 == ReleaseMut(m4, old_tail)
       IN TryUnwrapElem(m5, old_tail)

pop_back(m) ==
  IF m.tail = None THEN [m EXCEPT !.ret = None]
  ELSE LET old_tail == m.tail
           m1 == [m EXCEPT !.tail = None]
           m2 == BorrowMut(m1, old_tail)
           new_tail == m2.prev[old_tail]
           m3 == IF m2.fault = NoFault
                 THEN [m2 EXCEPT !.prev[old_tail] = None] ELSE m2
           m4 == IF new_tail # None
                 THEN LET a == BorrowMut(m3, new_tail)
                          b == ReleaseMut(SetNext(a, new_tail, None), new_tail)
                      IN SetTail(b, new_tail)
                 ELSE SetHead(m3, None)
           m5 == ReleaseMut(m4, old_tail)
       IN TryUnwrapElem(m5, old_tail)

\* List::new
new(m) == [m EXCEPT !.head = None, !.tail = None]

\* peek_front taking node.borrow_mut() where node.borrow() is meant
peek_front_excl(m) ==
  IF m.head = None THEN [m EXCEPT !.ret = None]
  ELSE LET b == BorrowMut(m, m.head)
       IN IF b.fault # NoFault THEN b ELSE [b EXCEPT !.ret = m.elem[m.head], !.view = m.head]

\* peek_front asking try_borrow() and answering None when it is refused
peek_front_try(m) ==
  IF m.head = None \/ m.borrow[m.head] < 0 THEN [m EXCEPT !.ret = None]
  ELSE LET b == Borrow(m, m.head)
       IN IF b.fault # NoFault THEN b ELSE [b EXCEPT !.ret = m.elem[m.head], !.view = m.head]

\* peek_front / peek_back: node.borrow() mapped to the element
peek_front(m) ==
  IF m.head = None THEN [m EXCEPT !.ret = None]
  ELSE LET b == Borrow(m, m.head)
       IN IF b.fault # NoFault THEN b ELSE [b EXCEPT !.ret = m.elem[m.head], !.view = m.head]

\* peek_back left reading the head after being copied from peek_front
peek_back_head(m) == peek_front(m)

peek_back(m) ==
  IF m.tail = None THEN [m EXCEPT !.ret = None]
  ELSE LET b == Borrow(m, m.tail)
       IN IF b.fault # NoFault THEN b ELSE [b EXCEPT !.ret = m.elem[m.tail], !.view = m.tail]

\* peek_front_mut / peek_back_mut: node.borrow_mut() mapped to the element
peek_front_mut(m) ==
  IF m.head = None THEN [m EXCEPT !.ret = None]
  ELSE LET b == BorrowMut(m, m.head)
       IN IF b.fault # NoFault THEN b ELSE [b EXCEPT !.ret = m.elem[m.head], !.view = m.head]

\* peek_back_mut left borrowing the head after being copied
peek_back_mut_head(m) == peek_front_mut(m)

peek_back_mut(m) ==
  IF m.tail = None THEN [m EXCEPT !.ret = None]
  ELSE LET b == BorrowMut(m, m.tail)
       IN IF b.fault # NoFault THEN b ELSE [b EXCEPT !.ret = m.elem[m.tail], !.view = m.tail]

\* IntoIter::next and IntoIter::next_back, on the list the iterator holds
iter_next(m) == pop_front(m)

\* next_back left popping the front
iter_next_back_front(m) == pop_front(m)

iter_next_back(m) == pop_back(m)

\* drop with `if` in place of `while`: one pop_front and no more
drop_once(m) ==
  LET p == [pop_front(m) EXCEPT !.calls = @ + 1]
  IN IF p.fault # NoFault \/ p.ret = None THEN p
     ELSE [p EXCEPT !.pops = @ + 1]

\* Drop for List: while self.pop_front().is_some() {}
RECURSIVE drop(_)
drop(m) ==
  LET p == [pop_front(m) EXCEPT !.calls = @ + 1]
  IN IF p.fault # NoFault \/ p.ret = None THEN p
     ELSE drop([p EXCEPT !.pops = @ + 1])

\* After Drop::drop the fields of the List are dropped, head before tail.
drop_fields(m) == SetTail(SetHead(m, None), None)

\* ------------------------------------------------------------ observers
\* The nodes met from l along the links f, at most fuel of them.
RECURSIVE Chain(_, _, _)
Chain(f, l, fuel) ==
  IF l = None \/ fuel = 0 THEN <<>> ELSE <<l>> \o Chain(f, f[l], fuel - 1)

Fwd == Chain(next, head, MaxNodes + 2)

Bwd == Chain(prev, tail, MaxNodes + 2)

Contents == [i \in 1..Len(Fwd) |-> elem[Fwd[i]]]

Reverse(s) == [i \in 1..Len(s) |-> s[Len(s) + 1 - i]]

\* List::new of first.rs and second.rs: the empty link
first_new == <<>>

second_new == <<>>

\* ---------------------------------------------------------------- state
Init ==
  /\ head = None
  /\ tail = None
  /\ elem = [n \in NodeIds |-> None]
  /\ next = [n \in NodeIds |-> None]
  /\ prev = [n \in NodeIds |-> None]
  /\ strong = [n \in NodeIds |-> 0]
  /\ borrow = [n \in NodeIds |-> 0]
  /\ fault = NoFault
  /\ views = <<>>
  /\ mode = "list"
  /\ last = [op |-> "new", arg |-> None, ret |-> None, rc |-> 0, held |-> 0,
             dirty |-> FALSE, cascade |-> 0, calls |-> 0, pops |-> 0]
  /\ it = [src |-> <<>>, front |-> <<>>, back |-> <<>>]
  /\ trace = <<>>
  /\ first_head = first_new
  /\ second_head = second_new
  /\ second_iter = FALSE
  /\ calls = <<>>

\* the mutating methods taking &self, as interior mutability would allow
Callable_shared == fault = NoFault /\ mode = "list"

\* &mut self: no view of the list may be alive
Callable == fault = NoFault /\ mode = "list" /\ views = <<>>

\* &self: no mutable view of the list may be alive
Readable ==
  /\ fault = NoFault
  /\ mode = "list"
  /\ \A i \in 1..Len(views) : ~views[i].mut

\* The record of a call: what was called with what, what it returned and
\* what the method counted on the way.
Result(op, arg, m) ==
  [op |-> op, arg |-> arg, ret |-> m.ret, rc |-> m.rc, held |-> m.held,
   dirty |-> m.dirty, cascade |-> m.cascade, calls |-> m.calls,
   pops |-> m.pops]

\* The record of a call that runs no method of List
Plain(op, arg) ==
  [op |-> op, arg |-> arg, ret |-> None, rc |-> 0, held |-> 0, dirty |-> FALSE,
   cascade |-> 0, calls |-> 0, pops |-> 0]

PushFront ==
  /\ Callable
  /\ \E e \in Elems : \E n \in Free(M) :
       LET m == push_front(M, n, e)
       IN Commit(m) /\ last' = Result("push_front", e, m)
  /\ UNCHANGED <<views, mode, it>>

PushBack ==
  /\ Callable
  /\ \E e \in Elems : \E n \in Free(M) :
       LET m == push_back(M, n, e)
       IN Commit(m) /\ last' = Result("push_back", e, m)
  /\ UNCHANGED <<views, mode, it>>

PopFront ==
  /\ Callable
  /\ LET m == pop_front(M)
     IN Commit(m) /\ last' = Result("pop_front", None, m)
  /\ UNCHANGED <<views, mode, it>>

PopBack ==
  /\ Callable
  /\ LET m == pop_back(M)
     IN Commit(m) /\ last' = Result("pop_back", None, m)
  /\ UNCHANGED <<views, mode, it>>

\* The caller keeps the returned Ref/RefMut in views until it drops it.
Held(m, mut) ==
  IF m.fault = NoFault /\ m.view # None
  THEN Append(views, [node |-> m.view, mut |-> mut]) ELSE views

PeekFront ==
  /\ Readable
  /\ Len(views) < MaxViews
  /\ LET m == peek_front(M)
     IN /\ Commit(m)
        /\ last' = Result("peek_front", None, m)
        /\ views' = Held(m, FALSE)
  /\ UNCHANGED <<mode, it>>

PeekBack ==
  /\ Readable
  /\ Len(views) < MaxViews
  /\ LET m == peek_back(M)
     IN /\ Commit(m)
        /\ last' = Result("peek_back", None, m)
        /\ views' = Held(m, FALSE)
  /\ UNCHANGED <<mode, it>>

PeekFrontMut ==
  /\ Callable
  /\ LET m == peek_front_mut(M)
     IN /\ Commit(m)
        /\ last' = Result("peek_front_mut", None, m)
        /\ views' = Held(m, TRUE)
  /\ UNCHANGED <<mode, it>>

PeekBackMut ==
  /\ Callable
  /\ LET m == peek_back_mut(M)
     IN /\ Commit(m)
        /\ last' = Result("peek_back_mut", None, m)
        /\ views' = Held(m, TRUE)
  /\ UNCHANGED <<mode, it>>

\* *view = v through a RefMut
WriteView ==
  /\ fault = NoFault
  /\ \E i \in 1..Len(views) : \E v \in Elems :
       /\ views[i].mut
       /\ elem' = [elem EXCEPT ![views[i].node] = v]
       /\ last' = Plain("write", v)
  /\ UNCHANGED <<head, tail, next, prev, strong, borrow, fault, views, mode, it>>

\* drop of a Ref or RefMut the caller holds
ReleaseView ==
  /\ fault = NoFault
  /\ \E i \in 1..Len(views) :
       LET v == views[i]
           m == IF v.mut THEN ReleaseMut(M, v.node) ELSE Release(M, v.node)
       IN /\ Commit(m)
          /\ views' = [j \in 1..(Len(views) - 1) |->
                         IF j < i THEN views[j] ELSE views[j + 1]]
          /\ last' = Plain("release", None)
  /\ UNCHANGED <<mode, it>>

\* into_iter: the list moves into IntoIter
IntoIter ==
  /\ Callable
  /\ mode' = "iter"
  /\ it' = [src |-> Contents, front |-> <<>>, back |-> <<>>]
  /\ last' = Plain("into_iter", None)
  /\ UNCHANGED <<heapVars, views>>

\* IntoIter::next
IterNext ==
  /\ fault = NoFault
  /\ mode = "iter"
  /\ LET m == iter_next(M)
     IN /\ Commit(m)
        /\ last' = Result("next", None, m)
        /\ it' = IF m.fault = NoFault /\ m.ret # None
                 THEN [it EXCEPT !.front = Append(@, m.ret)] ELSE it
  /\ UNCHANGED <<views, mode>>

\* IntoIter::next_back
IterNextBack ==
  /\ fault = NoFault
  /\ mode = "iter"
  /\ LET m == iter_next_back(M)
     IN /\ Commit(m)
        /\ last' = Result("next_back", None, m)
        /\ it' = IF m.fault = NoFault /\ m.ret # None
                 THEN [it EXCEPT !.back = Append(@, m.ret)] ELSE it
  /\ UNCHANGED <<views, mode>>

\* the list, or the IntoIter that holds it, goes out of scope
Drop ==
  /\ fault = NoFault
  /\ mode \in {"list", "iter"}
  /\ views = <<>>
  /\ LET m == drop_fields(drop(M))
     IN Commit(m) /\ last' = Result("drop", None, m)
  /\ mode' = "dropped"
  /\ UNCHANGED <<views, it>>

\* List::new() again, after the previous list is gone
New ==
  /\ fault = NoFault
  /\ mode = "dropped"
  /\ Commit(new(M))
  /\ mode' = "list"
  /\ last' = Plain("new", None)
  /\ it' = [src |-> <<>>, front |-> <<>>, back |-> <<>>]
  /\ UNCHANGED views

Next ==
  \/ PushFront /\ UNCHANGED <<trace, stackVars>>
  \/ PushBack /\ UNCHANGED <<trace, stackVars>>
  \/ PopFront /\ UNCHANGED <<trace, stackVars>>
  \/ PopBack /\ UNCHANGED <<trace, stackVars>>
  \/ PeekFront /\ UNCHANGED <<trace, stackVars>>
  \/ PeekBack /\ UNCHANGED <<trace, stackVars>>
  \/ PeekFrontMut /\ UNCHANGED <<trace, stackVars>>
  \/ PeekBackMut /\ UNCHANGED <<trace, stackVars>>
  \/ WriteView /\ UNCHANGED <<trace, stackVars>>
  \/ ReleaseView /\ UNCHANGED <<trace, stackVars>>
  \/ IntoIter /\ UNCHANGED <<trace, stackVars>>
  \/ IterNext /\ UNCHANGED <<trace, stackVars>>
  \/ IterNextBack /\ UNCHANGED <<trace, stackVars>>
  \/ Drop /\ UNCHANGED <<trace, stackVars>>
  \/ New /\ UNCHANGED <<trace, stackVars>>

Spec == Init /\ [][Next]_vars

\* mem::forget of a RefMut: the caller's borrow of the list ends, the guard
\* never runs its drop, and the RefCell stays mutably borrowed.
ForgetView ==
  /\ fault = NoFault
  /\ \E i \in 1..Len(views) :
       /\ views[i].mut
       /\ views' = [j \in 1..(Len(views) - 1) |->
                      IF j < i THEN views[j] ELSE views[j + 1]]
  /\ last' = Plain("forget", None)
  /\ UNCHANGED <<heapVars, mode, it>>

\* A caller that may also leak the views it is handed.
NextLeak ==
  \/ Next
  \/ ForgetView /\ UNCHANGED <<trace, stackVars>>

SpecLeak == Init /\ [][NextLeak]_vars

\* ------------------------------------------------- the singly-linked stacks
\* A Box owns its node, so a link is a value: <<>> for Link::Empty (None in
\* second.rs) and <<node>> for Link::More(Box<Node>) (Some), the node being
\* [elem, next] with next a link again.  A method yields the new head and
\* the value it returns.
\* first::List::push
first_push(h, e) ==
  LET taken == h
      next_node == [elem |-> e, next |-> taken]
  IN [head |-> <<next_node>>, ret |-> None]

\* first::List::pop
first_pop(h) ==
  LET taken == h
      emptied == <<>>
  IN IF taken = <<>> THEN [head |-> emptied, ret |-> None]
     ELSE [head |-> taken[1].next, ret |-> taken[1].elem]

\* second::List::push
second_push(h, e) ==
  LET next_node == [elem |-> e, next |-> h]
  IN [head |-> <<next_node>>, ret |-> None]

\* second::List::pop with the closure returning node.elem and no more: the
\* rest of the list goes with the node
second_pop_drop(h) ==
  IF h = <<>> THEN [head |-> <<>>, ret |-> None]
  ELSE [head |-> <<>>, ret |-> h[1].elem]

\* second::List::pop
second_pop(h) ==
  IF h = <<>> THEN [head |-> <<>>, ret |-> None]
  ELSE [head |-> h[1].next, ret |-> h[1].elem]

\* second::IntoIter::next
second_next(h) == second_pop(h)

Called(list, op, arg, ret) ==
  [list |-> list, op |-> op, arg |-> arg, ret |-> ret]

\* One caller drives one list.
Driving(list) ==
  /\ Len(calls) < MaxOps
  /\ \A i \in 1..Len(calls) : calls[i].list = list

dequeVars == <<heapVars, views, mode, last, it, trace>>

FirstPush ==
  /\ Driving("first")
  /\ \E e \in Elems :
       LET r == first_push(first_head, e)
       IN /\ first_head' = r.head
          /\ calls' = Append(calls, Called("first", "push", e, r.ret))
  /\ UNCHANGED <<second_head, second_iter, dequeVars>>

FirstPop ==
  /\ Driving("first")
  /\ LET r == first_pop(first_head)
     IN /\ first_head' = r.head
        /\ calls' = Append(calls, Called("first", "pop", None, r.ret))
  /\ UNCHANGED <<second_head, second_iter, dequeVars>>

SecondPush ==
  /\ Driving("second")
  /\ ~second_iter
  /\ \E e \in Elems :
       LET r == second_push(second_head, e)
       IN /\ second_head' = r.head
          /\ calls' = Append(calls, Called("second", "push", e, r.ret))
  /\ UNCHANGED <<first_head, second_iter, dequeVars>>

SecondPop ==
  /\ Driving("second")
  /\ ~second_iter
  /\ LET r == second_pop(second_head)
     IN /\ second_head' = r.head
        /\ calls' = Append(calls, Called("second", "pop", None, r.ret))
  /\ UNCHANGED <<first_head, second_iter, dequeVars>>

\* second::List::into_iter
SecondIntoIter ==
  /\ Driving("second")
  /\ ~second_iter
  /\ second_iter' = TRUE
  /\ calls' = Append(calls, Called("second", "into_iter", None, None))
  /\ UNCHANGED <<first_head, second_head, dequeVars>>

SecondIterNext ==
  /\ Driving("second")
  /\ second_iter
  /\ LET r == second_next(second_head)
     IN /\ second_head' = r.head
        /\ calls' = Append(calls, Called("second", "next", None, r.ret))
  /\ UNCHANGED <<first_head, second_iter, dequeVars>>

NextStack ==
  \/ FirstPush
  \/ FirstPop
  \/ SecondPush
  \/ SecondPop
  \/ SecondIntoIter
  \/ SecondIterNext

SpecStack == Init /\ [][NextStack]_vars

PopOps == {"pop_front", "pop_back"}

PushOps == {"push_front", "push_back"}

\* A caller that fills the list and then pops it, as the tests do, with
\* every call and its result kept in trace.
Logged ==
  /\ Len(trace) < MaxOps
  /\ trace' = Append(trace, last')
  /\ UNCHANGED stackVars

Filling == \A i \in 1..Len(trace) : trace[i].op \in PushOps

NextDeque ==
  \/ Filling /\ PushFront /\ Logged
  \/ Filling /\ PushBack /\ Logged
  \/ PopFront /\ Logged
  \/ PopBack /\ Logged

SpecDeque == Init /\ [][NextDeque]_vars

\* ------------------------------------------------------------ properties
Empty == head = None /\ tail = None

\* C1: the list refines an abstract sequence.  Every push_front prepends
\* its argument, every push_back appends it, every pop_front removes and
\* returns the first element and every pop_back the last one (None on the
\* empty sequence), and after the call the elements met from head along
\* next are exactly the new abstract sequence; no call faults.
C1_RefinesSequence ==
  [][/\ last'.op = "push_front" =>
          fault' = NoFault /\ Contents' = <<last'.arg>> \o Contents
     /\ last'.op = "push_back" =>
          fault' = NoFault /\ Contents' = Append(Contents, last'.arg)
     /\ last'.op = "pop_front" =>
          /\ fault' = NoFault
          /\ IF Contents = <<>>
             THEN last'.ret = None /\ Contents' = <<>>
             ELSE last'.ret = Head(Contents) /\ Contents' = Tail(Contents)
     /\ last'.op = "pop_back" =>
          /\ fault' = NoFault
          /\ IF Contents = <<>>
             THEN last'.ret = None /\ Contents' = <<>>
             ELSE /\ last'.ret = Contents[Len(Contents)]
                  /\ Contents' = SubSeq(Contents, 1, Len(Contents) - 1)]_vars

C1_Witness ==
  /\ last.op = "pop_back"
  /\ last.ret # None
  /\ Len(Contents) = 2
  /\ Contents[1] # Contents[2]

\* C2: after n pushes at either end of an empty list and then n pop_front
\* calls, the pops have returned the front-pushed elements in the reverse
\* of their push order and then the back-pushed elements in push order.
Args(t) == [i \in 1..Len(t) |-> t[i].arg]

IsFrontPush(r) == r.op = "push_front"

IsBackPush(r) == r.op = "push_back"

PushesThenPops(n) ==
  /\ Len(trace) = 2 * n
  /\ \A i \in 1..n : trace[i].op \in PushOps
  /\ \A i \in (n + 1)..(2 * n) : trace[i].op = "pop_front"

C2_PopOrder ==
  \A n \in 1..MaxNodes :
    PushesThenPops(n) =>
      LET pushes == SubSeq(trace, 1, n)
      IN [i \in 1..n |-> trace[n + i].ret] =
           Reverse(Args(SelectSeq(pushes, IsFrontPush)))
             \o Args(SelectSeq(pushes, IsBackPush))

C2_Witness ==
  /\ PushesThenPops(3)
  /\ trace[1].op = "push_back"
  /\ trace[2].op = "push_front"
  /\ trace[3].op = "push_back"
  /\ trace[1].arg # trace[3].arg
  /\ trace[1].arg # trace[2].arg

\* C3: a pop at either end of an empty list returns None, raises no fault
\* and leaves head and tail absent, however often it is repeated and whether
\* the list is fresh or was filled and drained.
C3_PopEmpty ==
  [][(last'.op \in PopOps /\ Empty) =>
       (last'.ret = None /\ fault' = NoFault /\ Empty')]_vars

C3_Witness ==
  /\ Len(trace) >= 5
  /\ \E i \in 1..Len(trace) : trace[i].op \in PushOps
  /\ LET k == Len(trace)
     IN /\ trace[k].op = "pop_back" /\ trace[k].ret = None /\ trace[k].rc = 0
        /\ trace[k - 1].op = "pop_front" /\ trace[k - 1].ret = None
        /\ trace[k - 2].op = "pop_back" /\ trace[k - 2].ret = None
  /\ Empty

\* C4: for every pair of adjacent nodes A, B of the list (A immediately
\* before B, met from either end), A.next is B and B.prev is A.
C4_AdjacentAgree ==
  /\ \A i \in 1..(Len(Fwd) - 1) :
       next[Fwd[i]] = Fwd[i + 1] /\ prev[Fwd[i + 1]] = Fwd[i]
  /\ \A i \in 1..(Len(Bwd) - 1) :
       prev[Bwd[i]] = Bwd[i + 1] /\ next[Bwd[i + 1]] = Bwd[i]

C4_Witness ==
  /\ last.op = "push_front"
  /\ Len(Fwd) = 3
  /\ Len(Bwd) = 3

\* C5: head is absent exactly when tail is; the head node has no prev and
\* the tail node no next; a list of one node has head and tail on that node
\* and both of its links absent.
C5_Ends ==
  /\ head = None <=> tail = None
  /\ head # None => prev[head] = None
  /\ tail # None => next[tail] = None
  /\ (Len(Fwd) = 1 \/ Len(Bwd) = 1) =>
       head = tail /\ next[head] = None /\ prev[head] = None

C5_Witness ==
  /\ last.op = "pop_front"
  /\ last.ret # None
  /\ Len(Fwd) = 1
  /\ head = tail

\* C6: the walk from head along next and the walk from tail along prev
\* have the same length, end at tail and at head, meet the same nodes in
\* opposite orders, and meet no node twice.
C6_WalksAgree ==
  /\ Len(Fwd) = Len(Bwd)
  /\ Bwd = Reverse(Fwd)
  /\ Fwd # <<>> => Fwd[Len(Fwd)] = tail /\ Bwd[Len(Bwd)] = head
  /\ Cardinality({Fwd[i] : i \in 1..Len(Fwd)}) = Len(Fwd)
  /\ Cardinality({Bwd[i] : i \in 1..Len(Bwd)}) = Len(Bwd)

C6_Witness ==
  /\ last.op = "push_back"
  /\ Len(Fwd) = 3
  /\ Bwd = Reverse(Fwd)
  /\ mode = "list"

\* C7: whenever pop_front or pop_back runs on a non-empty list with no
\* view outstanding, Rc::try_unwrap finds a strong count of exactly one on
\* the detached node, so the element is extracted and unwrap does not panic.
C7_SoleOwnerAtUnwrap ==
  [][(last'.op \in PopOps /\ ~Empty) =>
       (last'.rc = 1 /\ fault' = NoFault /\ last'.ret # None)]_vars

C7_Witness ==
  /\ last.op = "pop_back"
  /\ last.rc = 1
  /\ last.ret # None
  /\ Len(Fwd) = 2
  /\ fault = NoFault

\* C8: peek_front shows the element the next pop_front would return and
\* peek_back the one the next pop_back would return, each is None exactly
\* on the empty list, and neither taking nor releasing the view changes
\* head, tail, a link or an element.
Shape == <<head, tail, next, prev, elem, strong>>

C8_PeekReads ==
  [][/\ last'.op = "peek_front" =>
          /\ fault' = NoFault
          /\ last'.ret = None <=> Empty
          /\ ~Empty => last'.ret = Head(Contents)
          /\ views = <<>> => last'.ret = pop_front(M).ret
          /\ Shape' = Shape
     /\ last'.op = "peek_back" =>
          /\ fault' = NoFault
          /\ last'.ret = None <=> Empty
          /\ ~Empty => last'.ret = Contents[Len(Contents)]
          /\ views = <<>> => last'.ret = pop_back(M).ret
          /\ Shape' = Shape
     /\ last'.op = "release" => fault' = NoFault /\ Shape' = Shape]_vars

C8_Witness ==
  /\ last.op = "peek_back"
  /\ Len(views) = 2
  /\ views[1].node = head
  /\ views[2].node = tail
  /\ last.ret = elem[tail]
  /\ elem[head] # elem[tail]
  /\ Len(Fwd) = 3

\* C9: peek_front_mut (peek_back_mut) is None on the empty list and else a
\* mutable view of the head (tail) node; a value written through it becomes
\* that node's element and changes nothing else; once the view is released
\* peek_front (peek_back) shows that element and pop_front (pop_back)
\* returns it.
Links == <<head, tail, next, prev, strong>>

C9_PeekMutWrites ==
  [][/\ last'.op = "peek_front_mut" =>
          /\ fault' = NoFault
          /\ last'.ret = None <=> Empty
          /\ views' = IF Empty THEN <<>> ELSE <<[node |-> head, mut |-> TRUE]>>
          /\ Shape' = Shape
     /\ last'.op = "peek_back_mut" =>
          /\ fault' = NoFault
          /\ last'.ret = None <=> Empty
          /\ views' = IF Empty THEN <<>> ELSE <<[node |-> tail, mut |-> TRUE]>>
          /\ Shape' = Shape
     /\ last'.op = "write" =>
          /\ Len(views) = 1
          /\ elem' = [elem EXCEPT ![views[1].node] = last'.arg]
          /\ Links' = Links
     /\ (last'.op = "release" /\ Len(views) = 1 /\ views[1].mut) =>
          /\ views[1].node = head =>
               /\ peek_front(M').ret = elem[head]
               /\ pop_front(M').ret = elem[head]
          /\ views[1].node = tail =>
               /\ peek_back(M').ret = elem[tail]
               /\ pop_back(M').ret = elem[tail]]_vars

C9_Witness ==
  /\ last.op = "write"
  /\ Len(Fwd) = 3
  /\ views = <<[node |-> tail, mut |-> TRUE]>>
  /\ elem[tail] = last.arg
  /\ elem[head] # last.arg

\* C10: an IntoIter over e1..en returns, at each next(), the first element
\* not yet returned from the front and, at each next_back(), the last one
\* not yet returned from the back, whatever the interleaving; what is left
\* in the list is the untouched middle; and once n elements are out, next()
\* and next_back() return None.
Middle == SubSeq(it.src, Len(it.front) + 1, Len(it.src) - Len(it.back))

C10_IterBothEnds ==
  [][(mode = "iter" /\ last'.op \in {"next", "next_back"}) =>
       /\ fault' = NoFault
       /\ Contents = Middle
       /\ Contents' = SubSeq(it'.src, Len(it'.front) + 1,
                             Len(it'.src) - Len(it'.back))
       /\ it'.src = it.src
       /\ IF Len(it.front) + Len(it.back) = Len(it.src)
          THEN last'.ret = None /\ it' = it
          ELSE IF last'.op = "next"
               THEN /\ last'.ret = it.src[Len(it.front) + 1]
                    /\ it'.front = Append(it.front, last'.ret)
                    /\ it'.back = it.back
               ELSE /\ last'.ret = it.src[Len(it.src) - Len(it.back)]
                    /\ it'.back = Append(it.back, last'.ret)
                    /\ it'.front = it.front]_vars

C10_Witness ==
  /\ mode = "iter"
  /\ last.op = "next"
  /\ Len(it.src) = 3
  /\ it.src[1] # it.src[2]
  /\ it.src[2] # it.src[3]
  /\ it.front = <<it.src[1], it.src[2]>>
  /\ it.back = <<it.src[3]>>
  /\ Empty

\* C11: dropping a list of n nodes, also the list inside a partly consumed
\* IntoIter, calls pop_front n + 1 times: n calls return an element and the
\* last one None.  No call faults, and afterwards head and tail are absent
\* and no node has a strong count left.
C11_DropDrains ==
  [][last'.op = "drop" =>
       /\ fault' = NoFault
       /\ last'.pops = Len(Fwd)
       /\ last'.calls = Len(Fwd) + 1
       /\ last'.ret = None
       /\ Empty'
       /\ \A n \in NodeIds : strong'[n] = 0]_vars

C11_Witness ==
  /\ mode = "dropped"
  /\ last.op = "drop"
  /\ last.pops = 2
  /\ last.calls = 3
  /\ Len(it.src) = 3
  /\ Len(it.back) = 1
  /\ \A n \in NodeIds : strong[n] = 0

\* C12: read-only views may pile up on one node.  A peek_front or
\* peek_back on a non-empty list succeeds whatever read-only views are alive,
\* also views of the very node it reads (as when head and tail are one
\* node): no fault, the views held before stay, and one more Ref on the head
\* (tail) node is alive.
OnlyRefs == \A i \in 1..Len(views) : ~views[i].mut

C12_SharedViews ==
  [][/\ (last'.op = "peek_front" /\ ~Empty /\ OnlyRefs) =>
          /\ fault' = NoFault
          /\ last'.ret = elem[head]
          /\ views' = Append(views, [node |-> head, mut |-> FALSE])
          /\ borrow' = [borrow EXCEPT ![head] = @ + 1]
          /\ borrow'[head] = Cardinality({i \in 1..Len(views') :
                                            views'[i].node = head})
     /\ (last'.op = "peek_back" /\ ~Empty /\ OnlyRefs) =>
          /\ fault' = NoFault
          /\ last'.ret = elem[tail]
          /\ views' = Append(views, [node |-> tail, mut |-> FALSE])
          /\ borrow' = [borrow EXCEPT ![tail] = @ + 1]
          /\ borrow'[tail] = Cardinality({i \in 1..Len(views') :
                                            views'[i].node = tail})]_vars

C12_Witness ==
  /\ last.op = "peek_back"
  /\ head = tail
  /\ head # None
  /\ views = <<[node |-> head, mut |-> FALSE], [node |-> tail, mut |-> FALSE]>>
  /\ borrow[head] = 2
  /\ fault = NoFault

\* C13: while a mutable view of a node is alive (its RefMut was never
\* dropped), a call that would view that node again (peek_front,
\* peek_front_mut on it as head; peek_back, peek_back_mut on it as tail) or
\* pop it (pop_front as head, pop_back as tail) raises a borrow fault in that
\* very call: it hands out no view and returns neither an element nor None.
BorrowFaults == {"BorrowError", "BorrowMutError"}

FrontOps == {"peek_front", "peek_front_mut", "pop_front"}

BackOps == {"peek_back", "peek_back_mut", "pop_back"}

MutAlive(n) == n # None /\ borrow[n] < 0

C14_RefFreezesList ==
  [][(views # <<>> /\ OnlyRefs) =>
       /\ Shape' = Shape
       /\ fault' = NoFault
       /\ last'.op \in {"peek_front", "peek_back", "release"}
       /\ (last'.op = "release" => Len(views') = Len(views) - 1)]_vars

C14_Witness ==
  /\ last.op = "release"
  /\ Len(Fwd) = 3
  /\ views = <<[node |-> tail, mut |-> FALSE]>>
  /\ borrow[tail] = 1

\* C15: List::new() gives the empty list; from every state in which the
\* list can be popped, any mix of pop_front and pop_back empties it in
\* exactly as many pops as it has nodes, none of them faulting; and the
\* drained list is the fresh list: head, tail and every node slot are as
\* List::new() left them, so every later call sees the same state on both.
Ends == {"front", "back"}

Heap(m) ==
  [head |-> m.head, tail |-> m.tail, elem |-> m.elem, next |-> m.next,
   prev |-> m.prev, strong |-> m.strong, borrow |-> m.borrow]

FreshHeap ==
  [head |-> None, tail |-> None, elem |-> [n \in NodeIds |-> None],
   next |-> [n \in NodeIds |-> None], prev |-> [n \in NodeIds |-> None],
   strong |-> [n \in NodeIds |-> 0], borrow |-> [n \in NodeIds |-> 0]]

RECURSIVE PopMix(_, _, _)
PopMix(m, c, i) ==
  IF i > Len(c) THEN m
  ELSE PopMix(IF c[i] = "front" THEN pop_front(m) ELSE pop_back(m), c, i + 1)

C15_DrainedIsFresh ==
  /\ last.op = "new" => Empty /\ Heap(M) = FreshHeap
  /\ (fault = NoFault /\ views = <<>> /\ mode \in {"list", "iter"}) =>
       \A k \in 0..Len(Fwd) : \A c \in [1..k -> Ends] :
         LET d == PopMix(M, c, 1)
         IN /\ d.fault = NoFault
            /\ (d.head = None \/ d.tail = None) <=> k = Len(Fwd)
            /\ k = Len(Fwd) => Heap(d) = FreshHeap

C15_Witness ==
  /\ last.op = "pop_back"
  /\ last.ret # None
  /\ Heap(M) = FreshHeap
  /\ mode = "list"

\* C16: on a list of two or more nodes an operation touches one end only.
\* push_front and pop_front leave the tail slot alone, push_back and
\* pop_back the head slot.  Of the nodes that are in the list before and
\* after the call, a push changes only the old end node's link to the new
\* node, a pop only the new end node's link to the removed node, and neither
\* changes an element.
InList == {Fwd[i] : i \in 1..Len(Fwd)}

C16_OneEndOnly ==
  [][Len(Fwd) >= 2 =>
       /\ last'.op = "push_front" =>
            /\ tail' = tail
            /\ head' \notin InList
            /\ \A n \in InList :
                 /\ elem'[n] = elem[n]
                 /\ next'[n] = next[n]
                 /\ prev'[n] = IF n = head THEN head' ELSE prev[n]
       /\ last'.op = "push_back" =>
            /\ head' = head
            /\ tail' \notin InList
            /\ \A n \in InList :
                 /\ elem'[n] = elem[n]
                 /\ prev'[n] = prev[n]
                 /\ next'[n] = IF n = tail THEN tail' ELSE next[n]
       /\ last'.op = "pop_front" =>
            /\ tail' = tail
            /\ head' = next[head]
            /\ \A n \in InList \ {head} :
                 /\ elem'[n] = elem[n]
                 /\ next'[n] = next[n]
                 /\ prev'[n] = IF n = head' THEN None ELSE prev[n]
       /\ last'.op = "pop_back" =>
            /\ head' = head
            /\ tail' = prev[tail]
            /\ \A n \in InList \ {tail} :
                 /\ elem'[n] = elem[n]
                 /\ prev'[n] = prev[n]
                 /\ next'[n] = IF n = tail' THEN None ELSE next[n]]_vars

C16_Witness ==
  /\ last.op = "push_front"
  /\ Len(Fwd) = 3
  /\ prev[Fwd[2]] = head
  /\ prev[tail] = Fwd[2]
  /\ elem[head] # elem[Fwd[2]]

\* C17: with no view outstanding, push_front, push_back, pop_front and
\* pop_back never borrow a cell that is already borrowed.  The neighbour a
\* pop borrows inside the match is another node than the detached one whose
\* RefMut the match holds, that RefMut is gone when Rc::try_unwrap runs, and
\* every borrow the call took is released when it returns.
C17_NoBorrowFault ==
  [][last'.op \in PushOps \cup PopOps =>
       /\ fault' \notin BorrowFaults
       /\ last'.held = 0
       /\ borrow' = [n \in NodeIds |-> 0]
       /\ (last'.op = "pop_front" /\ head # None) => next[head] # head
       /\ (last'.op = "pop_back" /\ tail # None) => prev[tail] # tail]_vars

C17_Witness ==
  /\ last.op = "pop_front"
  /\ last.ret # None
  /\ last.held = 0
  /\ Len(Fwd) = 2
  /\ prev[head] = None
  /\ fault = NoFault

\* C18: between operations every node of the list has a strong count of
\* exactly 2 and every other slot a count of 0.  The count is the number of
\* links that hold the node: the next of its predecessor and the prev of its
\* successor for an interior node, the list slot and the one neighbour for
\* the head and the tail of a longer list, head and tail for a single node.
Holders(n) ==
  (IF head = n THEN 1 ELSE 0) + (IF tail = n THEN 1 ELSE 0)
    + Cardinality({k \in NodeIds : next[k] = n})
    + Cardinality({k \in NodeIds : prev[k] = n})

C18_StrongCountTwo ==
  /\ \A n \in NodeIds :
       /\ strong[n] = Holders(n)
       /\ strong[n] = IF n \in InList THEN 2 ELSE 0
  /\ \A i \in 1..Len(Fwd) :
       LET n == Fwd[i]
       IN /\ i = 1 => head = n
          /\ i > 1 => next[Fwd[i - 1]] = n /\ head # n
          /\ i = Len(Fwd) => tail = n
          /\ i < Len(Fwd) => prev[Fwd[i + 1]] = n /\ tail # n

C18_Witness ==
  /\ Len(Fwd) = 3
  /\ last.op = "push_back"
  /\ strong[Fwd[1]] = 2
  /\ strong[Fwd[2]] = 2
  /\ strong[Fwd[3]] = 2

\* C19: a node is reclaimed only with both of its links absent, in
\* pop_front, pop_back, the iterator and teardown alike: reclaiming it frees
\* that one slot and never drops the last Rc of another node.  A pop frees
\* one slot, and a teardown of n nodes frees n slots in n pops of one node
\* each.
Frees == Cardinality({n \in NodeIds : strong[n] > 0 /\ strong'[n] = 0})

C19_ReclaimUnlinked ==
  [][last'.op \in PopOps \cup {"next", "next_back", "drop"} =>
       /\ ~last'.dirty
       /\ last'.cascade = 0
       /\ Frees = IF last'.op = "drop" THEN Len(Fwd)
                  ELSE IF Empty THEN 0 ELSE 1
       /\ last'.op = "drop" => last'.pops = Frees
       /\ \A n \in NodeIds : strong'[n] <= strong[n]]_vars

C19_Witness ==
  /\ last.op = "drop"
  /\ mode = "dropped"
  /\ last.pops = 3
  /\ ~last.dirty
  /\ last.cascade = 0
  /\ it.src = <<>>

\* C20: the stacks of first.rs and second.rs are LIFO.  Replaying the
\* calls made so far on a plain sequence, every pop has returned the element
\* pushed last and not yet popped, or None on the empty stack, which it left
\* empty; the list holds what the replay holds; and the IntoIter of the
\* second list has yielded the elements in that pop order and then None.
RECURSIVE Flat(_)
Flat(h) == IF h = <<>> THEN <<>> ELSE <<h[1].elem>> \o Flat(h[1].next)

RECURSIVE Lifo(_)
Lifo(log) ==
  IF log = <<>> THEN <<>>
  ELSE LET s == Lifo(SubSeq(log, 1, Len(log) - 1))
           c == log[Len(log)]
       IN IF c.op = "push" THEN <<c.arg>> \o s
          ELSE IF c.op \in {"pop", "next"} /\ s # <<>> THEN Tail(s)
          ELSE s

C20_StacksAreLifo ==
  /\ \A i \in 1..Len(calls) :
       calls[i].op \in {"pop", "next"} =>
         LET s == Lifo(SubSeq(calls, 1, i - 1))
         IN calls[i].ret = IF s = <<>> THEN None ELSE Head(s)
  /\ (calls # <<>> /\ calls[1].list = "first") =>
       Flat(first_head) = Lifo(calls) /\ second_head = <<>>
  /\ (calls # <<>> /\ calls[1].list = "second") =>
       Flat(second_head) = Lifo(calls) /\ first_head = <<>>

C20_Witness ==
  /\ Len(calls) = 6
  /\ calls[1] = Called("second", "push", 1, None)
  /\ calls[2] = Called("second", "push", 2, None)
  /\ calls[3] = Called("second", "pop", None, 2)
  /\ calls[4].op = "into_iter"
  /\ calls[5] = Called("second", "next", None, 1)
  /\ calls[6] = Called("second", "next", None, None)
  /\ second_head = <<>>

====
